---- MODULE Spec2Model ----
(***************************************************************************)
(* A model of oflight.py: the orientation-flight Scorer (points_command,   *)
(* process_data and the per-record point functions) and the Slotter        *)
(* (slots_command, read_cadet_list, write_slotting_results), driven by     *)
(* main.                                                                   *)
(*                                                                         *)
(* Text is a sequence of tokens: " " is a whitespace character, "-" a      *)
(* hyphen, "0".."9" digits, a month abbreviation ("Mar") one token, any    *)
(* other token an ordinary character.  A table cell is a record            *)
(* [na, s]: na is pandas' missing value (NaN), s the text otherwise.       *)
(***************************************************************************)
EXTENDS Integers, Sequences, FiniteSets, TLC

VARIABLES
    report,      \* Cadet_Orientation_Report.csv as read: [exists, columns, rows]
    today,       \* datetime.now(): [year, month]
    scored,      \* the value process_data returned (or raised), when applied alone
    cadetFile,   \* cadet_list.txt: [readable, lines]
    capIds,      \* the value read_cadet_list returned, when applied alone
    argv,        \* sys.argv[1:]
    pc,          \* position of the run: "main", "points", "slots", "exit"
    mode,        \* the branch main took: "complete", "points", "slots", "usage", "none"
    slot_count,  \* the slot count main passes to slots_command: [given, n]
    pointsCsv,   \* oflight_points.csv: [state, rows, fresh]
    slotting,    \* slotting.txt: [state, split, primary, alternates, combined, unmatched, fresh]
    exitCode,    \* -1 while the process runs, then its exit status
    log,         \* what this run logged or printed (a set of message labels)
    last         \* what slots_command computed in memory: [done, cap_ids, filtered, sorted, unmatched]

vars == <<report, today, scored, cadetFile, capIds, argv, pc, mode, slot_count,
          pointsCsv, slotting, exitCode, log, last>>

-----------------------------------------------------------------------------
(* Program constants *)

NO_FLIGHT_FACTOR == 5
FLIGHT_FACTOR == 5
DATE_FACTOR == 1
PoweredSlots == 5

REQUIRED_COLUMNS == {"Miles", "Textbox39", "Textbox25", "GroupType", "Joined"}

\* rename_columns: the legacy names of powered_1 .. powered_5
PoweredColumns == {"Textbox135", "Textbox136", "Textbox137", "Textbox138", "Textbox139"}

NoFlightsGroup == "No O-Flights"

-----------------------------------------------------------------------------
(* Text and cells *)

NaN == [na |-> TRUE, s |-> <<>>]
Str(t) == [na |-> FALSE, s |-> t]

Digits == {"0", "1", "2", "3", "4", "5", "6", "7", "8", "9"}

DigitVal(c) ==
    CASE c = "0" -> 0 [] c = "1" -> 1 [] c = "2" -> 2 [] c = "3" -> 3 [] c = "4" -> 4
      [] c = "5" -> 5 [] c = "6" -> 6 [] c = "7" -> 7 [] c = "8" -> 8 [] c = "9" -> 9

DigitChar(n) ==
    CASE n = 0 -> "0" [] n = 1 -> "1" [] n = 2 -> "2" [] n = 3 -> "3" [] n = 4 -> "4"
      [] n = 5 -> "5" [] n = 6 -> "6" [] n = 7 -> "7" [] n = 8 -> "8" [] n = 9 -> "9"

RECURSIVE LStrip(_)
LStrip(s) == IF s = <<>> \/ s[1] # " " THEN s ELSE LStrip(Tail(s))

RECURSIVE RStrip(_)
RStrip(s) == IF s = <<>> \/ s[Len(s)] # " " THEN s ELSE RStrip(SubSeq(s, 1, Len(s) - 1))

\* str.strip()
Strip(s) == RStrip(LStrip(s))

\* pd.notna(row[col]) and row[col].strip()
NonBlank(cell) == ~cell.na /\ Strip(cell.s) # <<>>

RECURSIVE CountToken(_, _)
CountToken(s, c) ==
    IF s = <<>> THEN 0 ELSE (IF s[1] = c THEN 1 ELSE 0) + CountToken(Tail(s), c)

\* len(date_str.split('-'))
SplitParts(s) == CountToken(s, "-") + 1

RECURSIVE DigitsValue(_)
DigitsValue(s) == IF s = <<>> THEN 0 ELSE DigitsValue(SubSeq(s, 1, Len(s) - 1)) * 10 + DigitVal(s[Len(s)])

AllDigits(s) == s # <<>> /\ \A i \in 1..Len(s) : s[i] \in Digits

-----------------------------------------------------------------------------
(* parse_date: datetime.strptime in the two accepted formats *)

MonthNum ==
    ("Jan" :> 1) @@ ("Feb" :> 2) @@ ("Mar" :> 3) @@ ("Apr" :> 4) @@ ("May" :> 5) @@
    ("Jun" :> 6) @@ ("Jul" :> 7) @@ ("Aug" :> 8) @@ ("Sep" :> 9) @@ ("Oct" :> 10) @@
    ("Nov" :> 11) @@ ("Dec" :> 12)

NoDate == [ok |-> FALSE, year |-> 0, month |-> 0, day |-> 0]
Date(y, m, d) == [ok |-> TRUE, year |-> y, month |-> m, day |-> d]

IsLeap(y) == (y % 4 = 0 /\ y % 100 # 0) \/ y % 400 = 0

DaysInMonth(y, m) ==
    IF m = 2 THEN (IF IsLeap(y) THEN 29 ELSE 28)
    ELSE IF m \in {4, 6, 9, 11} THEN 30 ELSE 31

\* the datetime constructor rejects a day the month does not have
MakeDate(y, m, d) == IF d >= 1 /\ d <= DaysInMonth(y, m) THEN Date(y, m, d) ELSE NoDate

\* %y: 00..68 are 2000..2068, 69..99 are 1969..1999
TwoDigitYear(n) == IF n < 69 THEN 2000 + n ELSE 1900 + n

\* datetime.strptime(t, "%b-%y-%d"); a failure to match is NoDate
StrptimeMonYearDay(t) ==
    IF /\ Len(t) \in {6, 7}
       /\ t[1] \in DOMAIN MonthNum
       /\ t[2] = "-"
       /\ t[3] \in Digits /\ t[4] \in Digits
       /\ t[5] = "-"
       /\ AllDigits(SubSeq(t, 6, Len(t)))
    THEN MakeDate(TwoDigitYear(DigitsValue(SubSeq(t, 3, 4))), MonthNum[t[1]],
                  DigitsValue(SubSeq(t, 6, Len(t))))
    ELSE NoDate

\* datetime.strptime(t, "%d %b %Y"), day of one or two digits
StrptimeDayMonYear(t) ==
    LET dl == IF Len(t) >= 2 /\ t[2] \in Digits THEN 2 ELSE 1
    IN  IF /\ Len(t) = dl + 7
           /\ AllDigits(SubSeq(t, 1, dl))
           /\ t[dl + 1] = " "
           /\ t[dl + 2] \in DOMAIN MonthNum
           /\ t[dl + 3] = " "
           /\ AllDigits(SubSeq(t, dl + 4, dl + 7))
        THEN MakeDate(DigitsValue(SubSeq(t, dl + 4, dl + 7)), MonthNum[t[dl + 2]],
                      DigitsValue(SubSeq(t, 1, dl)))
        ELSE NoDate

\* parse_date: a missing value has no split method, the exception is caught
parse_date(cell) ==
    IF cell.na THEN NoDate
    ELSE IF SplitParts(cell.s) = 2 THEN StrptimeMonYearDay(cell.s \o <<"-", "0", "1">>)
    ELSE StrptimeDayMonYear(cell.s)

Max(a, b) == IF a >= b THEN a ELSE b

calculate_months_since_nofloor(cell, now) ==
    IF ~cell.na /\ cell.s = <<>> THEN 0
    ELSE LET parsed == parse_date(cell)
         IN  IF ~parsed.ok THEN 0
             ELSE (now.year - parsed.year) * 12 + (now.month - parsed.month)

calculate_months_since(cell, now) ==
    IF ~cell.na /\ cell.s = <<>> THEN 0
    ELSE LET parsed == parse_date(cell)
         IN  IF ~parsed.ok THEN 0
             ELSE Max(0, (now.year - parsed.year) * 12 + (now.month - parsed.month))

calculate_date_points(last_powered, now) == calculate_months_since(last_powered, now) * DATE_FACTOR

-----------------------------------------------------------------------------
(* Flight history and points of one record *)

RECURSIVE ScanUp(_, _)
ScanUp(row, i) ==
    IF i > PoweredSlots THEN row.Joined
    ELSE IF NonBlank(row.powered[i]) THEN row.powered[i] ELSE ScanUp(row, i + 1)

find_last_powered_date_ascending(row) == ScanUp(row, 1)

RECURSIVE ScanDown(_, _)
ScanDown(row, i) ==
    IF i = 0 THEN row.Joined
    ELSE IF NonBlank(row.powered[i]) THEN row.powered[i] ELSE ScanDown(row, i - 1)

find_last_powered_date(row) == ScanDown(row, PoweredSlots)

RECURSIVE CountFrom(_, _)
CountFrom(row, i) ==
    IF i > PoweredSlots THEN 0
    ELSE (IF NonBlank(row.powered[i]) THEN 1 ELSE 0) + CountFrom(row, i + 1)

count_powered_flights(row) == CountFrom(row, 1)

calculate_flight_points_always_bonus(row) ==
    (5 - row.powered_count) * FLIGHT_FACTOR + NO_FLIGHT_FACTOR

calculate_flight_points(row) ==
    IF row.GroupType = NoFlightsGroup
    THEN (5 - row.powered_count) * FLIGHT_FACTOR + NO_FLIGHT_FACTOR
    ELSE (5 - row.powered_count) * FLIGHT_FACTOR

calculate_total_points(row) == row.flight_points + row.date_points

\* the columns process_data adds to one row, in the order it adds them
ScoreRow(row, now) ==
    LET r1 == [CAPID |-> row.CAPID, GroupType |-> row.GroupType, Joined |-> row.Joined,
               powered |-> row.powered, powered_count |-> count_powered_flights(row)]
        last_powered == find_last_powered_date(r1)
        fp == calculate_flight_points(r1)
        dp == calculate_date_points(last_powered, now)
    IN  [CAPID |-> row.CAPID, GroupType |-> row.GroupType, Joined |-> row.Joined,
         powered |-> row.powered, powered_count |-> r1.powered_count,
         last_powered |-> last_powered, flight_points |-> fp, date_points |-> dp,
         total_points |-> calculate_total_points([flight_points |-> fp, date_points |-> dp])]

-----------------------------------------------------------------------------
(* read_csv / to_csv: pandas infers a column's type from all of its cells *)

RECURSIVE IntText(_)
\* str(n) for n >= 0
IntText(n) == IF n < 10 THEN <<DigitChar(n)>> ELSE IntText(n \div 10) \o <<DigitChar(n % 10)>>

\* a column whose cells all read as integers becomes int64, otherwise it stays text
ColumnIsInt(texts) == \A i \in 1..Len(texts) : AllDigits(texts[i])

IntId(n) == [int |-> TRUE, n |-> n, s |-> <<>>]
TextId(t) == [int |-> FALSE, n |-> 0, s |-> t]

InferIds(texts) ==
    IF ColumnIsInt(texts)
    THEN [i \in 1..Len(texts) |-> IntId(DigitsValue(texts[i]))]
    ELSE [i \in 1..Len(texts) |-> TextId(texts[i])]

\* str(value): what to_csv writes for an identifier and what astype(str) yields
IdText(id) == IF id.int THEN IntText(id.n) ELSE id.s

WithId(row, id) == [row EXCEPT !.CAPID = id]

\* pd.read_csv: the rows of a file, the CAPID column typed by inference
ReadCsvRows(rows) ==
    LET ids == InferIds([i \in 1..Len(rows) |-> rows[i].CAPID])
    IN  [i \in 1..Len(rows) |-> WithId(rows[i], ids[i])]

\* DataFrame.to_csv: every identifier written as its text
ToCsvRows(rows) == [i \in 1..Len(rows) |-> WithId(rows[i], IdText(rows[i].CAPID))]

-----------------------------------------------------------------------------
(* The Ranker: DataFrame.sort_values('total_points', ascending=False) *)

IsDescending(rows) ==
    \A i, j \in 1..Len(rows) : i < j => rows[i].total_points >= rows[j].total_points

Arrange(rows, p) == [i \in 1..Len(rows) |-> rows[p[i]]]

\* sort_values is called with its default kind, 'quicksort', which pandas documents
\* as not stable: every descending arrangement of the rows is a possible result
SortValues(rows) ==
    {Arrange(rows, p) : p \in {q \in Permutations(1..Len(rows)) : IsDescending(Arrange(rows, q))}}

-----------------------------------------------------------------------------
(* process_data *)

Raised(e) == [state |-> e, rows |-> <<>>]
Returned(rows) == [state |-> "ok", rows |-> rows]

\* validate_dataframe
validate_dataframe(columns) == REQUIRED_COLUMNS \ columns = {}

ScoreRows(rows, now) == [i \in 1..Len(rows) |-> ScoreRow(rows[i], now)]

\* the set of outcomes of process_data(df): the exception raised or a ranked table
process_data(columns, rows, now) ==
    IF ~validate_dataframe(columns) THEN {Raised("ValueError")}
    ELSE IF ~(PoweredColumns \subseteq columns) THEN {Raised("KeyError")}
    ELSE {Returned(t) : t \in SortValues(ScoreRows(rows, now))}

-----------------------------------------------------------------------------
(* read_cadet_list *)

InSeq(x, s) == \E i \in 1..Len(s) : s[i] = x

RECURSIVE CollectKeepDuplicates(_, _)
CollectKeepDuplicates(lines, cap_ids) ==
    IF lines = <<>> THEN cap_ids
    ELSE LET cap_id == Strip(lines[1])
         IN  CollectKeepDuplicates(Tail(lines),
                 IF cap_id # <<>> THEN Append(cap_ids, cap_id) ELSE cap_ids)

RECURSIVE Collect(_, _)
\* the loop over the file's lines; seen holds exactly the members of cap_ids
Collect(lines, cap_ids) ==
    IF lines = <<>> THEN cap_ids
    ELSE LET cap_id == Strip(lines[1])
         IN  Collect(Tail(lines),
                 IF cap_id # <<>> /\ ~InSeq(cap_id, cap_ids)
                 THEN Append(cap_ids, cap_id) ELSE cap_ids)

read_cadet_list_keep_duplicates(file) ==
    IF ~file.readable THEN <<>> ELSE CollectKeepDuplicates(file.lines, <<>>)

read_cadet_list(file) == IF ~file.readable THEN <<>> ELSE Collect(file.lines, <<>>)

-----------------------------------------------------------------------------
(* Values of the state before, or outside, a run *)

AllColumns == REQUIRED_COLUMNS \cup PoweredColumns \cup {"CAPID", "FullName"}

NoSlotCount == [given |-> FALSE, n |-> 0]
SlotCount(n) == [given |-> TRUE, n |-> n]

AbsentCsv == [state |-> "absent", rows |-> <<>>, fresh |-> FALSE]
AbsentSlotting ==
    [state |-> "absent", split |-> FALSE, primary |-> <<>>, alternates |-> <<>>,
     combined |-> <<>>, unmatched |-> <<>>, fresh |-> FALSE]
NoLast == [done |-> FALSE, cap_ids |-> <<>>, filtered |-> <<>>, sorted |-> <<>>, unmatched |-> <<>>]
NotScored == [state |-> "none", rows |-> <<>>]
NotRead == [done |-> FALSE, ids |-> <<>>]
NoReport == [exists |-> FALSE, columns |-> {}, rows |-> <<>>]
NoCadetFile == [readable |-> FALSE, lines |-> <<>>]
Now0 == [year |-> 2025, month |-> 6]

RunOff ==
    /\ argv = <<>> /\ pc = "off" /\ mode = "none" /\ slot_count = NoSlotCount
    /\ pointsCsv = AbsentCsv /\ slotting = AbsentSlotting /\ exitCode = -1
    /\ log = {} /\ last = NoLast

RunVars == <<argv, pc, mode, slot_count, pointsCsv, slotting, exitCode, log, last>>

-----------------------------------------------------------------------------
(* process_data applied to one table: the inputs *)

MonYY(m, a, b) == Str(<<m, "-", a, b>>)
DayMonYear(d1, d2, m, y1, y2, y3, y4) == Str(<<d1, d2, " ", m, " ", y1, y2, y3, y4>>)

Blank == Str(<<" ">>)
JoinedGood == DayMonYear("1", "5", "Aug", "2", "0", "2", "2")

\* what powered_i may hold: missing, whitespace, or a date (well formed or not)
PoweredValues(i) ==
    CASE i = 1 -> {NaN, Blank, MonYY("Jan", "2", "4")}
      [] i = 2 -> {NaN, Blank, DayMonYear("0", "9", "Mar", "2", "0", "2", "3")}
      [] i = 3 -> {NaN, Blank, MonYY("Jun", "2", "5"), Str(<<" ", "Jun", "-", "2", "5">>)}
      [] i = 4 -> {NaN, Blank, MonYY("Dec", "2", "4")}
      [] i = 5 -> {NaN, Blank, MonYY("Mar", "2", "6"),
                   Str(<<"Mar", "-", "2", "6", "-", "0", "1">>)}

JoinedValues == {NaN, Str(<<>>), JoinedGood, Str(<<"x">>)}
GroupValues == {NoFlightsGroup, "Powered Flights"}

Row(id, g, j, p) == [CAPID |-> id, GroupType |-> g, Joined |-> j, powered |-> p]

RichRows ==
    {Row(<<"1">>, g, j, <<p1, p2, p3, p4, p5>>) :
        g \in GroupValues, j \in JoinedValues,
        p1 \in PoweredValues(1), p2 \in PoweredValues(2), p3 \in PoweredValues(3),
        p4 \in PoweredValues(4), p5 \in PoweredValues(5)}

PlainRows ==
    {Row(<<"2">>, NoFlightsGroup, JoinedGood, <<NaN, NaN, NaN, NaN, NaN>>),
     Row(<<"2">>, "Powered Flights", JoinedGood,
         <<MonYY("Jan", "2", "4"), NaN, NaN, NaN, NaN>>)}

ScoreTables ==
    {<<r>> : r \in RichRows}
      \cup {<<r, q>> : r \in RichRows, q \in PlainRows}
      \cup {<<q, r>> : r \in RichRows, q \in PlainRows}

Todays == {[year |-> 2025, month |-> 6], [year |-> 2024, month |-> 12],
           [year |-> 2026, month |-> 1]}

BadColumnSets == {AllColumns \ {"Joined"}, AllColumns \ {"Textbox139"}}

ScoreReports ==
    {[exists |-> TRUE, columns |-> AllColumns, rows |-> t] : t \in ScoreTables}
      \cup {[exists |-> TRUE, columns |-> c, rows |-> <<q>>] :
               c \in BadColumnSets, q \in PlainRows}

InitScore ==
    /\ report \in ScoreReports
    /\ today \in Todays
    /\ scored = NotScored
    /\ cadetFile = NoCadetFile
    /\ capIds = NotRead
    /\ RunOff

\* process_data(df) on the table read from the report
ProcessDataStep ==
    /\ pc = "off"
    /\ report.exists
    /\ scored.state = "none"
    /\ scored' \in process_data(report.columns, ReadCsvRows(report.rows), today)
    /\ UNCHANGED <<report, today, cadetFile, capIds>>
    /\ UNCHANGED RunVars

NextScore == ProcessDataStep

SpecScore == InitScore /\ [][NextScore]_vars

-----------------------------------------------------------------------------
(* read_cadet_list applied to one file: the inputs *)

MaxLines == 3

LineTexts ==
    {<<>>, <<" ">>, <<"1">>, <<" ", "1">>, <<"1", " ">>, <<"0", "1">>, <<"2">>,
     <<" ", "2", " ">>}

RECURSIVE SeqsUpTo(_, _)
SeqsUpTo(S, n) ==
    IF n = 0 THEN {<<>>}
    ELSE LET shorter == SeqsUpTo(S, n - 1)
         IN  shorter \cup {Append(q, x) : q \in {t \in shorter : Len(t) = n - 1}, x \in S}

CadetFiles ==
    {NoCadetFile} \cup {[readable |-> TRUE, lines |-> l] : l \in SeqsUpTo(LineTexts, MaxLines)}

InitList ==
    /\ cadetFile \in CadetFiles
    /\ capIds = NotRead
    /\ report = NoReport
    /\ today = Now0
    /\ scored = NotScored
    /\ RunOff

ReadCadetListStep ==
    /\ pc = "off"
    /\ ~capIds.done
    /\ ~report.exists
    /\ capIds' = [done |-> TRUE, ids |-> read_cadet_list(cadetFile)]
    /\ UNCHANGED <<report, today, scored, cadetFile>>
    /\ UNCHANGED RunVars

NextList == ReadCadetListStep

SpecList == InitList /\ [][NextList]_vars

-----------------------------------------------------------------------------
(* The Slot Partitioner and the report: write_slotting_results *)

Min(a, b) == IF a <= b THEN a ELSE b

\* the position a Python slice bound n denotes in a sequence of length len
SliceBound(n, len) == IF n >= 0 THEN Min(n, len) ELSE Max(len + n, 0)

\* DataFrame.head(n) and DataFrame.iloc[n:]
DfHead(rows, n) == SubSeq(rows, 1, SliceBound(n, Len(rows)))
DfFrom(rows, n) == SubSeq(rows, SliceBound(n, Len(rows)) + 1, Len(rows))

\* `if slot_count and len(sorted_df) > slot_count`: None and 0 are both false
Splits(rows, sc) == sc.given /\ sc.n # 0 /\ Len(rows) > sc.n

\* the sections of the report, as write_slotting_results lays them out
ReportOf(rows, unmatched_ids, sc) ==
    IF Splits(rows, sc)
    THEN [state |-> "written", split |-> TRUE, primary |-> DfHead(rows, sc.n),
          alternates |-> DfFrom(rows, sc.n), combined |-> <<>>,
          unmatched |-> unmatched_ids, fresh |-> TRUE]
    ELSE [state |-> "written", split |-> FALSE, primary |-> <<>>, alternates |-> <<>>,
          combined |-> rows, unmatched |-> unmatched_ids, fresh |-> TRUE]

\* what a failed write leaves of slotting.txt: open() failed and the file is as it
\* was, or the write broke off and the file is incomplete
FailedReports(old) ==
    {old, [state |-> "partial", split |-> FALSE, primary |-> <<>>, alternates |-> <<>>,
           combined |-> <<>>, unmatched |-> <<>>, fresh |-> TRUE]}

-----------------------------------------------------------------------------
(* main, points_command, slots_command *)

Lower(tok) == CASE tok = "SLOTS" -> "slots" [] tok = "POINTS" -> "points" [] OTHER -> tok

\* str.lower()
LowerText(t) == [i \in 1..Len(t) |-> Lower(t[i])]

\* int(text) succeeds: surrounding whitespace, an optional sign, digits
IsIntText(t) ==
    LET u == Strip(t)
    IN  \/ AllDigits(u)
        \/ Len(u) >= 2 /\ u[1] \in {"-", "+"} /\ AllDigits(Tail(u))

IntOfText(t) ==
    LET u == Strip(t)
    IN  IF u[1] = "-" THEN 0 - DigitsValue(Tail(u))
        ELSE IF u[1] = "+" THEN DigitsValue(Tail(u))
        ELSE DigitsValue(u)

Exit(code) == pc' = "exit" /\ exitCode' = code

Main ==
    /\ pc = "main"
    /\ UNCHANGED <<report, today, scored, cadetFile, capIds, argv, pointsCsv, slotting, last>>
    /\ IF Len(argv) < 1
       THEN /\ log' = log \cup {"usage"}
            /\ mode' = "usage"
            /\ slot_count' = slot_count
            /\ Exit(1)
       ELSE LET first_arg == LowerText(argv[1])
            IN  IF IsIntText(first_arg)
                THEN /\ mode' = "complete"
                     /\ slot_count' = SlotCount(IntOfText(first_arg))
                     /\ log' = log \cup {"workflow_started"}
                     /\ pc' = "points"
                     /\ exitCode' = exitCode
                ELSE IF first_arg = <<"points">>
                THEN /\ mode' = "points"
                     /\ slot_count' = slot_count
                     /\ log' = log
                     /\ pc' = "points"
                     /\ exitCode' = exitCode
                ELSE IF first_arg = <<"slots">>
                THEN /\ mode' = "slots"
                     /\ pc' = "slots"
                     /\ exitCode' = exitCode
                     /\ IF Len(argv) > 1 /\ IsIntText(argv[2])
                        THEN slot_count' = SlotCount(IntOfText(argv[2])) /\ log' = log
                        ELSE /\ slot_count' = NoSlotCount
                             /\ log' = IF Len(argv) > 1
                                       THEN log \cup {"invalid_slot_count"} ELSE log
                ELSE /\ mode' = "usage"
                     /\ slot_count' = slot_count
                     /\ log' = log \cup {"unknown_command", "usage"}
                     /\ Exit(1)

\* where the run goes when points_command returns normally
AfterPoints(m) == IF m = "complete" THEN "slots" ELSE "exit"

PointsFailureReturns(m) == AfterPoints(m)

\* points_command's handler: logging.error, then sys.exit(1)
PointsFailure(m) == "exit"

\* what a failed to_csv leaves of oflight_points.csv: the file as it was, or a
\* file holding only some of the rows
FailedCsvs(old, rows) ==
    {old} \cup {[state |-> "partial", rows |-> SubSeq(rows, 1, n), fresh |-> TRUE] :
                   n \in 0..(Len(rows) - 1)}

PointsFails(csv) ==
    /\ pointsCsv' = csv
    /\ log' = log \cup {"points_error"}
    /\ pc' = PointsFailure(mode)
    /\ exitCode' = IF pc' = "exit" THEN 1 ELSE exitCode

PointsCommand ==
    /\ pc = "points"
    /\ UNCHANGED <<report, today, scored, cadetFile, capIds, argv, mode, slot_count,
                   slotting, last>>
    /\ IF ~report.exists THEN PointsFails(pointsCsv)
       ELSE \E r \in process_data(report.columns, ReadCsvRows(report.rows), today) :
               IF r.state # "ok" THEN PointsFails(pointsCsv)
               ELSE \/ /\ pointsCsv' = [state |-> "written", rows |-> ToCsvRows(r.rows),
                                        fresh |-> TRUE]
                       /\ log' = log \cup {"points_complete"}
                       /\ pc' = AfterPoints(mode)
                       /\ exitCode' = IF pc' = "exit" THEN 0 ELSE exitCode
                    \/ \E csv \in FailedCsvs(pointsCsv, ToCsvRows(r.rows)) :
                          /\ pointsCsv' = csv
                          /\ log' = log \cup {"points_write_failed", "points_error"}
                          /\ pc' = PointsFailure(mode)
                          /\ exitCode' = IF pc' = "exit" THEN 1 ELSE exitCode

\* df['CAPID'].astype(str)
AsTypeStr(rows) == [i \in 1..Len(rows) |-> WithId(rows[i], IdText(rows[i].CAPID))]

RECURSIVE Filter(_, _)
\* df[df['CAPID'].isin(cap_ids)]
Filter(rows, cap_ids) ==
    IF rows = <<>> THEN <<>>
    ELSE IF InSeq(rows[1].CAPID, cap_ids) THEN <<rows[1]>> \o Filter(Tail(rows), cap_ids)
    ELSE Filter(Tail(rows), cap_ids)

RECURSIVE Unmatched(_, _)
\* [id for id in cap_ids if id not in matched_ids]
Unmatched(cap_ids, matched_ids) ==
    IF cap_ids = <<>> THEN <<>>
    ELSE IF cap_ids[1] \notin matched_ids
    THEN <<cap_ids[1]>> \o Unmatched(Tail(cap_ids), matched_ids)
    ELSE Unmatched(Tail(cap_ids), matched_ids)

SlotsCommand ==
    /\ pc = "slots"
    /\ UNCHANGED <<report, today, scored, cadetFile, capIds, argv, mode, slot_count,
                   pointsCsv>>
    /\ IF pointsCsv.state = "absent"
       THEN /\ log' = log \cup {"slots_error"}
            /\ Exit(1)
            /\ UNCHANGED <<slotting, last>>
       ELSE LET cap_ids == read_cadet_list(cadetFile)
                df == AsTypeStr(ReadCsvRows(pointsCsv.rows))
                filtered_df == Filter(df, cap_ids)
                matched_ids == {filtered_df[i].CAPID : i \in 1..Len(filtered_df)}
                unmatched_ids == Unmatched(cap_ids, matched_ids)
            IN  \E sorted_df \in SortValues(filtered_df) :
                   /\ last' = [done |-> TRUE, cap_ids |-> cap_ids, filtered |-> filtered_df,
                               sorted |-> sorted_df, unmatched |-> unmatched_ids]
                   /\ \/ /\ slotting' = ReportOf(sorted_df, unmatched_ids, slot_count)
                         /\ log' = log \cup {"slots_complete"}
                      \/ /\ slotting' \in FailedReports(slotting)
                         /\ log' = log \cup {"error_writing_results", "slots_complete"}
                   /\ Exit(0)

-----------------------------------------------------------------------------
(* One invocation of the program: the inputs *)

MaxRows == 2
MaxCadets == 2

HighRow(id) == Row(id, NoFlightsGroup, JoinedGood, <<NaN, NaN, NaN, NaN, NaN>>)
LowRow(id) ==
    Row(id, "Powered Flights", JoinedGood, <<MonYY("Jan", "2", "4"), NaN, NaN, NaN, NaN>>)

\* identifiers as written in the files: with a leading zero, plain, and not a number
RunIds == {<<"0", "1">>, <<"1">>, <<"A">>}

RunRows == {HighRow(<<"0", "1">>), LowRow(<<"0", "1">>), LowRow(<<"1">>), HighRow(<<"A">>)}

RunTables == SeqsUpTo(RunRows, MaxRows) \ {<<>>}

RunReports ==
    {NoReport}
      \cup {[exists |-> TRUE, columns |-> AllColumns, rows |-> t] : t \in RunTables}
      \cup {[exists |-> TRUE, columns |-> c, rows |-> <<HighRow(<<"1">>)>>] :
               c \in BadColumnSets}

RunCadetFiles ==
    {NoCadetFile} \cup {[readable |-> TRUE, lines |-> l] : l \in SeqsUpTo(RunIds, MaxCadets)}

Arg(tok) == <<tok>>

Argvs ==
    {<<>>, <<Arg("points")>>, <<Arg("slots")>>, <<Arg("SLOTS"), Arg("1")>>,
     <<Arg("slots"), Arg("x")>>, <<Arg("1")>>, <<Arg("0")>>, <<<<"-", "1">>>>,
     <<Arg("bogus")>>}

\* oflight_points.csv before the run: absent, or left by an earlier run over the
\* same records, exported then with every column
EarlierCsvs(rep) ==
    {AbsentCsv} \cup
    {[state |-> "written", rows |-> ToCsvRows(r.rows), fresh |-> FALSE] :
        r \in (IF rep.exists
               THEN process_data(AllColumns, ReadCsvRows(rep.rows), Now0)
               ELSE {})}

\* slotting.txt before the run: absent, or left by an earlier run
EarlierSlotting ==
    [state |-> "written", split |-> FALSE, primary |-> <<>>, alternates |-> <<>>,
     combined |-> <<>>, unmatched |-> <<<<"A">>>>, fresh |-> FALSE]

Init ==
    /\ report \in RunReports
    /\ today = Now0
    /\ scored = NotScored
    /\ cadetFile \in RunCadetFiles
    /\ capIds = NotRead
    /\ argv \in Argvs
    /\ pc = "main"
    /\ mode = "none"
    /\ slot_count = NoSlotCount
    /\ pointsCsv \in EarlierCsvs(report)
    /\ slotting \in {AbsentSlotting, EarlierSlotting}
    /\ exitCode = -1
    /\ log = {}
    /\ last = NoLast

Next == Main \/ PointsCommand \/ SlotsCommand

Spec == Init /\ [][Next]_vars

-----------------------------------------------------------------------------
(* Properties of the Scorer's per-record functions, checked under SpecScore *)

\* the rows process_data was given, in input order
ScoreInput == ReadCsvRows(report.rows)

\* blank: missing, empty or whitespace only
IsBlankCell(cell) == cell.na \/ \A i \in 1..Len(cell.s) : cell.s[i] = " "

FilledSlots(row) == {i \in 1..5 : ~IsBlankCell(row.powered[i])}

\* C2: the Ranker outputs a permutation of its input rows, ordered by total_points
\* descending, in which rows of equal total_points keep their input order.
C2_StableRanking ==
    scored.state = "ok" =>
        LET in == ScoreRows(ScoreInput, today)
        IN  \E p \in Permutations(1..Len(in)) :
               /\ scored.rows = Arrange(in, p)
               /\ IsDescending(scored.rows)
               /\ \A i, j \in 1..Len(in) :
                     (i < j /\ in[p[i]].total_points = in[p[j]].total_points) => p[i] < p[j]

\* C3: powered_count is the number of non-blank powered_1..powered_5 fields, and
\* flight_points is (5 - powered_count) * FLIGHT_FACTOR, plus NO_FLIGHT_FACTOR exactly
\* for the 'No O-Flights' group: 0..25, or 5..30 with the bonus.
C3_FlightPoints ==
    scored.state = "ok" =>
        \A k \in 1..Len(scored.rows) :
            LET r == scored.rows[k]
                n == Cardinality(FilledSlots(r))
            IN  /\ r.powered_count = n
                /\ r.powered_count \in 0..5
                /\ r.flight_points =
                       (5 - n) * 5 + (IF r.GroupType = "No O-Flights" THEN 5 ELSE 0)
                /\ IF r.GroupType = "No O-Flights"
                   THEN r.flight_points \in 5..30
                   ELSE r.flight_points \in 0..25

C3_Witness ==
    /\ scored.state = "ok"
    /\ \E k \in 1..Len(scored.rows) :
          /\ scored.rows[k].GroupType = "No O-Flights"
          /\ Cardinality(FilledSlots(scored.rows[k])) = 3
          /\ scored.rows[k].flight_points = 15
    /\ \E k \in 1..Len(scored.rows) :
          /\ scored.rows[k].GroupType # "No O-Flights"
          /\ scored.rows[k].flight_points = 20

\* the calendar meaning of the date texts of the inputs; any other text is not a date
\* of either accepted format
KnownDates ==
    (<<"Jan", "-", "2", "4">> :> [year |-> 2024, month |-> 1]) @@
    (<<"0", "9", " ", "Mar", " ", "2", "0", "2", "3">> :> [year |-> 2023, month |-> 3]) @@
    (<<"Jun", "-", "2", "5">> :> [year |-> 2025, month |-> 6]) @@
    (<<"Dec", "-", "2", "4">> :> [year |-> 2024, month |-> 12]) @@
    (<<"Mar", "-", "2", "6">> :> [year |-> 2026, month |-> 3]) @@
    (<<"1", "5", " ", "Aug", " ", "2", "0", "2", "2">> :> [year |-> 2022, month |-> 8])

IsDateText(cell) == ~cell.na /\ cell.s \in DOMAIN KnownDates

MonthsBetween(then, now) == (now.year - then.year) * 12 + (now.month - then.month)

ExpectedDatePoints(cell, now) ==
    IF ~IsDateText(cell) THEN 0
    ELSE LET d == MonthsBetween(KnownDates[cell.s], now)
         IN  IF d > 0 THEN 1 * d ELSE 0

\* C4: date_points is never negative: DATE_FACTOR times the calendar month difference
\* when that is positive, 0 for the current month, a future date, an empty value or a
\* text of neither format; a record that fails to parse does not stop the scoring.
C4_DatePoints ==
    /\ scored.state = "ok" =>
          \A k \in 1..Len(scored.rows) :
              /\ scored.rows[k].date_points >= 0
              /\ scored.rows[k].date_points =
                     ExpectedDatePoints(scored.rows[k].last_powered, today)
    /\ (scored.state # "none" /\ report.columns = AllColumns) =>
          /\ scored.state = "ok"
          /\ Len(scored.rows) = Len(report.rows)

C4_Witness ==
    /\ scored.state = "ok"
    /\ Len(scored.rows) = 2
    /\ \E k \in 1..2 :
          /\ ~scored.rows[k].last_powered.na
          /\ scored.rows[k].last_powered.s # <<>>
          /\ ~IsDateText(scored.rows[k].last_powered)
          /\ scored.rows[k].date_points = 0
    /\ \E k \in 1..2 : scored.rows[k].date_points = 34
    /\ today.year = 2025

C4_WitnessFuture ==
    /\ scored.state = "ok"
    /\ \E k \in 1..Len(scored.rows) :
          /\ IsDateText(scored.rows[k].last_powered)
          /\ MonthsBetween(KnownDates[scored.rows[k].last_powered.s], today) < 0
          /\ scored.rows[k].date_points = 0

\* the value find_last_powered_date is to return
ExpectedLastPowered(row) ==
    IF FilledSlots(row) = {} THEN row.Joined
    ELSE row.powered[CHOOSE i \in FilledSlots(row) : \A j \in FilledSlots(row) : j <= i]

IsEmptyCell(cell) == cell.na \/ cell.s = <<>>

\* C5 as stated: last_powered is the highest-numbered non-blank powered_i, or the joined
\* date when all five are blank, and it is always non-empty.
C5_LastPoweredNonEmpty ==
    scored.state = "ok" =>
        \A k \in 1..Len(scored.rows) :
            /\ scored.rows[k].last_powered = ExpectedLastPowered(scored.rows[k])
            /\ ~IsEmptyCell(scored.rows[k].last_powered)

\* C5 amended: last_powered is the highest-numbered non-blank powered_i, or the joined
\* date when all five are blank; it is non-empty when some powered_i is non-blank or
\* the joined date is non-empty, and empty exactly when all five are blank and the
\* joined date is empty.
C5_LastPowered ==
    scored.state = "ok" =>
        \A k \in 1..Len(scored.rows) :
            LET r == scored.rows[k]
            IN  /\ r.last_powered = ExpectedLastPowered(r)
                /\ IsEmptyCell(r.last_powered) <=>
                       (FilledSlots(r) = {} /\ IsEmptyCell(r.Joined))

C5_Witness ==
    /\ scored.state = "ok"
    /\ \E k \in 1..Len(scored.rows) :
          LET r == scored.rows[k]
          IN  /\ FilledSlots(r) = {1, 2, 4}
              /\ r.last_powered = r.powered[4]
    /\ \E k \in 1..Len(scored.rows) :
          LET r == scored.rows[k]
          IN  /\ FilledSlots(r) = {}
              /\ r.last_powered = r.Joined
              /\ ~IsEmptyCell(r.Joined)

-----------------------------------------------------------------------------
(* Properties of read_cadet_list, checked under SpecList *)

NonSpace(s) == {i \in 1..Len(s) : s[i] # " "}

\* a line without its leading and trailing whitespace
Trimmed(s) ==
    IF NonSpace(s) = {} THEN <<>>
    ELSE SubSeq(s, CHOOSE i \in NonSpace(s) : \A j \in NonSpace(s) : i <= j,
                   CHOOSE i \in NonSpace(s) : \A j \in NonSpace(s) : j <= i)

\* the lines where an identifier occurs for the first time
FirstOccurrences(lines) ==
    {i \in 1..Len(lines) :
        /\ Trimmed(lines[i]) # <<>>
        /\ \A j \in 1..(i - 1) : Trimmed(lines[j]) # Trimmed(lines[i])}

NthOf(S, n) == CHOOSE i \in S : Cardinality({j \in S : j < i}) = n - 1

\* C6: read_cadet_list returns the trimmed non-blank lines, each identifier once at
\* the position of its first occurrence, in the original order; and the empty list
\* when the file cannot be read.
C6_CadetList ==
    capIds.done =>
        IF ~cadetFile.readable THEN capIds.ids = <<>>
        ELSE LET first == FirstOccurrences(cadetFile.lines)
             IN  /\ Len(capIds.ids) = Cardinality(first)
                 /\ \A n \in 1..Len(capIds.ids) :
                       capIds.ids[n] = Trimmed(cadetFile.lines[NthOf(first, n)])

C6_Witness ==
    /\ capIds.done
    /\ cadetFile.readable
    /\ Len(cadetFile.lines) = 3
    /\ Trimmed(cadetFile.lines[1]) = Trimmed(cadetFile.lines[3])
    /\ cadetFile.lines[1] # cadetFile.lines[3]
    /\ Len(capIds.ids) = 2

C6_WitnessUnreadable == capIds.done /\ ~cadetFile.readable /\ capIds.ids = <<>>

-----------------------------------------------------------------------------
(* Properties of a run, checked under Spec *)

\* the Slotter wrote its report in this run
ReportWritten == last.done /\ slotting.state = "written" /\ slotting.fresh

\* C1: primary rows plus alternate rows are the filtered matching rows, and the
\* filtered matching rows plus the unmatched identifiers are as many as the
\* deduplicated candidate list, whatever the scored table holds.
C1_PartitionCounts ==
    ReportWritten =>
        /\ Len(slotting.primary) + Len(slotting.alternates) + Len(slotting.combined)
               = Len(last.filtered)
        /\ Len(last.filtered) + Len(slotting.unmatched) = Len(last.cap_ids)

\* C7: the report is split into a primary group of exactly the first N rows and a
\* non-empty alternate group of the rest if and only if a slot count N is supplied and
\* more than N rows were filtered; otherwise all rows form one combined list. Every
\* primary row has at least the total_points of every alternate row.
C7_SplitIffExceeds ==
    ReportWritten =>
        LET rows == last.sorted
            n == slot_count.n
        IN  /\ slotting.split <=> (slot_count.given /\ Len(rows) > n)
            /\ slotting.split =>
                  /\ Len(slotting.primary) = n
                  /\ slotting.primary = SubSeq(rows, 1, n)
                  /\ slotting.alternates = SubSeq(rows, n + 1, Len(rows))
                  /\ slotting.alternates # <<>>
                  /\ slotting.combined = <<>>
                  /\ \A i \in 1..Len(slotting.primary), j \in 1..Len(slotting.alternates) :
                        slotting.primary[i].total_points >= slotting.alternates[j].total_points
            /\ ~slotting.split =>
                  /\ slotting.combined = rows
                  /\ slotting.primary = <<>>
                  /\ slotting.alternates = <<>>

\* C8: a failure to write an output file makes the command exit with non-zero status
\* and the stage is never reported complete after its write failed.
C8_WriteFailureIsFatal ==
    /\ "error_writing_results" \in log =>
          /\ "slots_complete" \notin log
          /\ pc = "exit" /\ exitCode = 1
    /\ "points_write_failed" \in log =>
          /\ "points_complete" \notin log
          /\ pc = "exit" /\ exitCode = 1

\* the identifiers of the scored records as the run's input holds them: the report's
\* in the complete workflow, the scored table's otherwise
SourceIds ==
    IF mode = "complete"
    THEN {report.rows[k].CAPID : k \in 1..Len(report.rows)}
    ELSE {pointsCsv.rows[k].CAPID : k \in 1..Len(pointsCsv.rows)}

\* C9: a candidate identifier is matched exactly when a scored record has the same
\* identifier as text, leading zeros included.
C9_TextualMatch ==
    last.done =>
        \A k \in 1..Len(last.cap_ids) :
            InSeq(last.cap_ids[k], last.unmatched) <=> last.cap_ids[k] \notin SourceIds

SlotterRan == last.done \/ "slots_complete" \in log \/ "slots_error" \in log

SchemaError == report.exists /\ REQUIRED_COLUMNS \ report.columns # {}

\* C10: in the complete workflow the Slotter starts only after the Scorer has completed
\* and written the scored table in this run; when the Scorer fails the process exits
\* with status 1, the run leaves no scored table of its own and the Slotter never
\* starts; a missing required column fails the Scorer before it writes anything.
C10_ScorerThenSlotter ==
    mode = "complete" =>
        /\ (pc = "slots" \/ SlotterRan) =>
              /\ "points_complete" \in log
              /\ "points_error" \notin log
              /\ pointsCsv.state = "written" /\ pointsCsv.fresh
        /\ "points_error" \in log =>
              /\ pc = "exit" /\ exitCode = 1
              /\ ~SlotterRan
              /\ ~(pointsCsv.state = "written" /\ pointsCsv.fresh)
        /\ (SchemaError /\ pc \in {"slots", "exit"}) =>
              /\ "points_error" \in log
              /\ ~pointsCsv.fresh

C10_Witness ==
    /\ mode = "complete"
    /\ SchemaError
    /\ pc = "exit" /\ exitCode = 1
    /\ pointsCsv.state = "written" /\ ~pointsCsv.fresh
    /\ ~SlotterRan

C10_WitnessSlotterRan ==
    /\ mode = "complete"
    /\ last.done
    /\ pointsCsv.fresh
    /\ exitCode = 0

====
